---- MODULE Spec2Model ----
(***************************************************************************)
(* Model of lib/Common/Memory/RecyclerPointers.h (ChakraCore): the         *)
(* compile-time write barrier policy chain, the pointer wrappers           *)
(* WriteBarrierPtr / NoWriteBarrierPtr and the array operations            *)
(* WriteBarrier, CopyArray, MoveArray and ClearArray.                      *)
(*                                                                         *)
(* One array of MemSize pointer-sized elements is modelled.  It lives in   *)
(* memory obtained from `allocator`, and its elements have the type        *)
(* `elemType`.  The same sequence of operations is run on two builds of    *)
(* the header at once: slots[TRUE] and hookCalls[TRUE] belong to the build *)
(* with RECYCLER_WRITE_BARRIER defined, slots[FALSE] and hookCalls[FALSE]  *)
(* to the build without it.                                                *)
(*                                                                         *)
(* RecyclerWriteBarrierManager::WriteBarrier, the notification hook, is    *)
(* instrumented: every call is logged with its arguments and with the      *)
(* memory as it is at the time of the call.  The log is read and cleared   *)
(* (ClearLog) after an operation; only an operation on the slot that was   *)
(* just constructed, or whose address was just taken, may run before that. *)
(***************************************************************************)
EXTENDS Integers, Sequences, FiniteSets

\* ------------------------------------------------------------------ bounds
MemSize == 4        \* elements of the modelled array
NumNodes == 2       \* distinct non-null pointer values (nodeA, nodeB, ...)

\* sizeof(T*) == sizeof(WriteBarrierPtr<T>) == sizeof(NoWriteBarrierPtr<T>):
\* each wrapper has the single data member `T * ptr` / `T * value`.
SizeofPtr == 8

Addr == 0 .. (MemSize - 1)
Counts == 0 .. MemSize
Val == 0 .. NumNodes          \* 0 is the null pointer (all bits zero)
Builds == BOOLEAN             \* is RECYCLER_WRITE_BARRIER defined?

\* ------------------------------------------------------------------ types
Recycler == "Recycler"
RecyclerNonLeafAllocator == "RecyclerNonLeafAllocator"
RecyclerLeafAllocator == "RecyclerLeafAllocator"
ArenaAllocator == "ArenaAllocator"     \* an allocator that is not of Recycler type
Allocators == {Recycler, RecyclerNonLeafAllocator, RecyclerLeafAllocator, ArenaAllocator}

_write_barrier_policy == "_write_barrier_policy"
_no_write_barrier_policy == "_no_write_barrier_policy"

RawPointer == "T*"
WriteBarrierPtr == "WriteBarrierPtr<T>"
NoWriteBarrierPtr == "NoWriteBarrierPtr<T>"
\* element / policy types the templates are instantiated with; "int" and
\* "double" stand for the opaque value types
Types == {RawPointer, WriteBarrierPtr, NoWriteBarrierPtr, "int", "double",
          _write_barrier_policy}
\* the PolicyType arguments CopyArray is called with, besides its default T
CopyPolicyTypes == {"int"}

\* --------------------------------------------------- policy resolution
TypeWriteBarrierPolicy(T) ==
    IF T \in {RawPointer, WriteBarrierPtr, _write_barrier_policy}
    THEN _write_barrier_policy
    ELSE _no_write_barrier_policy

\* mutant: only the primary template, without the specialization for Recycler
_AllocatorTypeWriteBarrierPolicy_Primary(AllocatorType) == _no_write_barrier_policy

_AllocatorTypeWriteBarrierPolicy(AllocatorType) ==
    IF AllocatorType = Recycler
    THEN _write_barrier_policy
    ELSE _no_write_barrier_policy

_AndWriteBarrierPolicy(Policy1, Policy2) ==
    IF Policy1 = _write_barrier_policy /\ Policy2 = _write_barrier_policy
    THEN _write_barrier_policy
    ELSE _no_write_barrier_policy

\* AllocatorInfo<Allocator, void>::AllocatorType: "Recycler allocator type
\* consists of multiple allocators: Recycler, RecyclerNonLeafAllocator,
\* RecyclerLeafAllocator"; any other allocator is its own allocator type.
AllocatorInfo(Allocator) ==
    IF Allocator \in {Recycler, RecyclerNonLeafAllocator, RecyclerLeafAllocator}
    THEN Recycler
    ELSE Allocator

\* mutant: without the specializations for RecyclerNonLeafAllocator
AllocatorWriteBarrierPolicy_General(Allocator, T) ==
    _AndWriteBarrierPolicy(
        _AllocatorTypeWriteBarrierPolicy(AllocatorInfo(Allocator)),
        TypeWriteBarrierPolicy(T))

AllocatorWriteBarrierPolicy(Allocator, T) ==
    IF Allocator = RecyclerNonLeafAllocator /\ T = "int"
    THEN _no_write_barrier_policy
    ELSE IF Allocator = RecyclerNonLeafAllocator
    THEN _write_barrier_policy
    ELSE _AndWriteBarrierPolicy(
             _AllocatorTypeWriteBarrierPolicy(AllocatorInfo(Allocator)),
             TypeWriteBarrierPolicy(T))

_WriteBarrierPtrPolicy(Policy) ==
    IF Policy = _write_barrier_policy THEN WriteBarrierPtr ELSE NoWriteBarrierPtr

\* WriteBarrierPtrTraits<T, Allocator>::Ptr, the wrapper of a T* field
WriteBarrierPtrTraits(Allocator) ==
    _WriteBarrierPtrPolicy(AllocatorWriteBarrierPolicy(Allocator, RawPointer))

\* ------------------------------------------------------------------ state
VARIABLES
    allocator,   \* the allocator the array's memory comes from
    elemType,    \* declared type of the array's elements
    slots,       \* slots[b][a]: pointer stored in element a, build b
    hookCalls,   \* hookCalls[b]: the calls of RecyclerWriteBarrierManager::
                 \* WriteBarrier since the log was cleared, in order, build b
    last,        \* the last operation and its arguments
    ret          \* what the last operation returned (a pointer or an address)

vars == <<allocator, elemType, slots, hookCalls, last, ret>>

\* op: the operation; after: the operation it followed without ClearLog;
\* old: what the slot dst held before a store to it
NoArgs == [op |-> "none", after |-> "none", dst |-> 0, count |-> 0, src |-> 0,
           srcCount |-> 0, val |-> 0, old |-> 0, ptype |-> "-", policy |-> "-"]

NoCalls == [b \in Builds |-> <<>>]

Min(x, y) == IF x <= y THEN x ELSE y

\* RecyclerWriteBarrierManager::WriteBarrier(void * address): the hook on one
\* slot.  snapshot is the memory as the hook sees it when it is called.
HookPtr(m, a) ==
    [address |-> a, ranged |-> FALSE, bytes |-> 0, snapshot |-> m]

\* RecyclerWriteBarrierManager::WriteBarrier(void * address, size_t bytes)
HookRange(m, a, nbytes) ==
    [address |-> a, ranged |-> TRUE, bytes |-> nbytes, snapshot |-> m]

\* the array's elements are declared through WriteBarrierPtrTraits, or are
\* plain T*, or are WriteBarrierPtr<T> written out by hand
Init ==
    /\ allocator \in Allocators
    /\ elemType \in {WriteBarrierPtrTraits(allocator), RawPointer, WriteBarrierPtr}
    /\ \E m \in [Addr -> Val] : slots = [b \in Builds |-> m]
    /\ hookCalls = NoCalls
    /\ last = NoArgs
    /\ ret = 0

Idle == last.op = "none"

\* the operations after which one more operation on the same slot may run
\* before the log is cleared
ChainStarts == {"WriteBarrierPtr", "AddressOf"}

Chained == last.op \in ChainStarts
SlotOpOk(a) == Idle \/ (Chained /\ last.dst = a)

\* f(defined, m) is [mem |-> memory after, calls |-> hook calls made]
Apply(f(_, _)) ==
    LET on == f(TRUE, slots[TRUE])
        off == f(FALSE, slots[FALSE])
    IN  /\ slots' = [b \in Builds |-> IF b THEN on.mem ELSE off.mem]
        /\ hookCalls' = [b \in Builds |->
                            hookCalls[b] \o (IF b THEN on.calls ELSE off.calls)]
        /\ UNCHANGED <<allocator, elemType>>

Args(op) == [NoArgs EXCEPT !.op = op, !.after = last.op]

ClearLog ==
    /\ ~ Idle
    /\ hookCalls' = NoCalls
    /\ last' = NoArgs
    /\ ret' = 0
    /\ UNCHANGED <<allocator, elemType, slots>>

\* ------------------------------------------------- WriteBarrierPtr<T>
NoWriteBarrierSet(m, a, ptr) ==
    [mem |-> [m EXCEPT ![a] = ptr], calls |-> <<>>]

\* mutant: the hook is called before the store
WriteBarrierSet_NotifyFirst(defined, m, a, ptr) ==
    [mem |-> NoWriteBarrierSet(m, a, ptr).mem,
     calls |-> IF defined THEN <<HookPtr(m, a)>> ELSE <<>>]

\* mutant: the store without the hook
WriteBarrierSet_NoNotify(defined, m, a, ptr) == NoWriteBarrierSet(m, a, ptr)

WriteBarrierSet(defined, m, a, ptr) ==
    LET stored == NoWriteBarrierSet(m, a, ptr).mem
    IN  [mem |-> stored,
         calls |-> IF defined THEN <<HookPtr(stored, a)>> ELSE <<>>]

\* mutant: the constructor goes through the barrier
WriteBarrierPtr_ctor_Notify(defined, m, a, ptr) ==
    [mem |-> [m EXCEPT ![a] = ptr],
     calls |-> IF defined THEN <<HookPtr([m EXCEPT ![a] = ptr], a)>> ELSE <<>>]

\* WriteBarrierPtr(T * ptr)
WriteBarrierPtr_ctor(defined, m, a, ptr) == NoWriteBarrierSet(m, a, ptr)

Construct(a, v) ==
    /\ elemType = WriteBarrierPtr
    /\ Idle
    /\ LET f(b, m) == WriteBarrierPtr_ctor(b, m, a, v) IN Apply(f)
    /\ last' = [Args("WriteBarrierPtr") EXCEPT !.dst = a, !.val = v,
                    !.old = slots[TRUE][a]]
    /\ ret' = 0

\* WriteBarrierPtr& operator=(T * ptr)
Assign(a, v) ==
    /\ elemType = WriteBarrierPtr
    /\ SlotOpOk(a)
    /\ LET f(b, m) == WriteBarrierSet(b, m, a, v) IN Apply(f)
    /\ last' = [Args("operator=") EXCEPT !.dst = a, !.val = v,
                    !.old = slots[TRUE][a]]
    /\ ret' = 0

\* WriteBarrierPtr& operator=(WriteBarrierPtr const& other); other is element o
AssignFrom(a, o) ==
    /\ elemType = WriteBarrierPtr
    /\ SlotOpOk(a)
    /\ LET f(b, m) == WriteBarrierSet(b, m, a, m[o]) IN Apply(f)
    /\ last' = [Args("operator=(WriteBarrierPtr const&)") EXCEPT
                    !.dst = a, !.src = o, !.val = slots[TRUE][o],
                    !.old = slots[TRUE][a]]
    /\ ret' = 0

\* void WriteBarrierSet(T * ptr), called directly
CallWriteBarrierSet(a, v) ==
    /\ elemType = WriteBarrierPtr
    /\ SlotOpOk(a)
    /\ LET f(b, m) == WriteBarrierSet(b, m, a, v) IN Apply(f)
    /\ last' = [Args("WriteBarrierSet") EXCEPT !.dst = a, !.val = v,
                    !.old = slots[TRUE][a]]
    /\ ret' = 0

\* void NoWriteBarrierSet(T * ptr), called directly (it is public)
CallNoWriteBarrierSet(a, v) ==
    /\ elemType = WriteBarrierPtr
    /\ SlotOpOk(a)
    /\ LET f(b, m) == NoWriteBarrierSet(m, a, v) IN Apply(f)
    /\ last' = [Args("NoWriteBarrierSet") EXCEPT !.dst = a, !.val = v,
                    !.old = slots[TRUE][a]]
    /\ ret' = 0

\* the const getters return the stored pointer or the slot's address
GetPtr(m, a) == m[a]
GetAddress(m, a) == a

Getter(op, a, result) ==
    /\ elemType = WriteBarrierPtr
    /\ SlotOpOk(a)
    /\ ret' = result
    /\ last' = [Args(op) EXCEPT !.dst = a]
    /\ UNCHANGED <<allocator, elemType, slots, hookCalls>>

\* T * operator->() const
OperatorArrow(a) == Getter("operator->", a, GetPtr(slots[TRUE], a))
\* operator T* const & () const
OperatorConv(a) == Getter("operator T* const&", a, GetPtr(slots[TRUE], a))
\* T* const * AddressOf() const
AddressOfConst(a) == Getter("AddressOf() const", a, GetAddress(slots[TRUE], a))
\* T* const * operator&() const
OperatorAddress(a) == Getter("operator&() const", a, GetAddress(slots[TRUE], a))

ReadOps == {"operator->", "operator T* const&"}
ConstAddressOps == {"AddressOf() const", "operator&() const"}

\* T** AddressOf(): hands out the mutable address of the slot
AddressOf(a) ==
    /\ elemType = WriteBarrierPtr
    /\ Idle
    /\ ret' = GetAddress(slots[TRUE], a)
    /\ last' = [Args("AddressOf") EXCEPT !.dst = a]
    /\ UNCHANGED <<allocator, elemType, slots, hookCalls>>

\* the caller's store `*p = v` through the T** that AddressOf() just returned
StoreThroughAddress(v) ==
    /\ last.op = "AddressOf"
    /\ slots' = [b \in Builds |-> [slots[b] EXCEPT ![ret] = v]]
    /\ last' = [Args("*AddressOf() = ptr") EXCEPT !.dst = ret, !.val = v,
                    !.old = slots[TRUE][ret]]
    /\ ret' = 0
    /\ UNCHANGED <<allocator, elemType, hookCalls>>

\* ------------------------------------------------- raw memory primitives
\* n elements copied one by one, lowest address first / highest address first,
\* each read taken from the memory as it then is
RECURSIVE CopyUp(_, _, _, _, _)
CopyUp(m, d, s, n, i) ==
    IF i >= n THEN m
    ELSE CopyUp([m EXCEPT ![d + i] = m[s + i]], d, s, n, i + 1)

RECURSIVE CopyDown(_, _, _, _)
CopyDown(m, d, s, i) ==
    IF i <= 0 THEN m
    ELSE CopyDown([m EXCEPT ![d + i - 1] = m[s + i - 1]], d, s, i - 1)

\* memmove(dst, src, bytes): overlap-safe, it picks the direction of the copy
memmove(m, d, s, nbytes) ==
    IF d <= s THEN CopyUp(m, d, s, nbytes \div SizeofPtr, 0)
              ELSE CopyDown(m, d, s, nbytes \div SizeofPtr)

\* memset(dst, 0, bytes)
memset(m, d, nbytes) ==
    [a \in Addr |-> IF d <= a /\ a < d + (nbytes \div SizeofPtr) THEN 0 ELSE m[a]]

\* js_memcpy_s(dst, sizeInBytes, src, count): copies the smaller of the two
\* byte extents from src to dst
js_memcpy_s(m, d, sizeInBytes, s, count) ==
    CopyUp(m, d, s, Min(sizeInBytes, count) \div SizeofPtr, 0)

\* the ranges [d, d+n) and [s, s+n) share an element
Overlap(d, s, n) == n > 0 /\ d < s + n /\ s < d + n

InRange(d, n) == d \in Addr /\ n \in Counts /\ d + n <= MemSize

\* what a caller may pass to a memcpy-based copy: both extents inside the
\* array, and the bytes copied do not overlap
CopyArgsOk(d, dn, s, sn) ==
    /\ InRange(d, dn)
    /\ InRange(s, sn)
    /\ ~ Overlap(d, s, Min(dn, sn))

\* ------------------------------------------------- array write barrier
\* mutant: the specialization is not under #ifdef RECYCLER_WRITE_BARRIER
_ArrayWriteBarrier_Always(defined, Policy, m, address, count) ==
    IF Policy = _write_barrier_policy
    THEN <<HookRange(m, address, SizeofPtr * count)>>
    ELSE <<>>

\* _ArrayWriteBarrier<Policy>::WriteBarrier(address, count); the specialization
\* for _write_barrier_policy exists only #ifdef RECYCLER_WRITE_BARRIER
_ArrayWriteBarrier(defined, Policy, m, address, count) ==
    IF defined /\ Policy = _write_barrier_policy
    THEN <<HookRange(m, address, SizeofPtr * count)>>
    ELSE <<>>

\* WriteBarrier<T, Allocator, PolicyType>(address, count)
WriteBarrier(defined, Allocator, PolicyType, m, address, count) ==
    _ArrayWriteBarrier(defined, AllocatorWriteBarrierPolicy(Allocator, PolicyType),
                       m, address, count)

\* CopyArray<Allocator, T, PolicyType>(dst, dstCount, src, srcCount)
CopyArray(defined, Allocator, PolicyType, m, dst, dstCount, src, srcCount) ==
    LET copied == js_memcpy_s(m, dst, SizeofPtr * dstCount, src, SizeofPtr * srcCount)
    IN  [mem |-> copied,
         calls |-> WriteBarrier(defined, Allocator, PolicyType, copied, dst, dstCount)]

\* mutant: a plain lowest-address-first copy instead of memmove
MoveArray_CopyUp(defined, m, dst, src, count) ==
    LET moved == CopyUp(m, dst, src, count, 0)
    IN  [mem |-> moved,
         calls |-> WriteBarrier(defined, Recycler, WriteBarrierPtr, moved, dst, count)]

\* WriteBarrierPtr::MoveArray(dst, src, count); its WriteBarrier(dst, count) is
\* WriteBarrier<WriteBarrierPtr<T>, Recycler, WriteBarrierPtr<T>>
MoveArray(defined, m, dst, src, count) ==
    LET moved == memmove(m, dst, src, SizeofPtr * count)
    IN  [mem |-> moved,
         calls |-> WriteBarrier(defined, Recycler, WriteBarrierPtr, moved, dst, count)]

\* mutant: the barrier is triggered over srcCount elements
WriteBarrierPtr_CopyArray_SrcCount(defined, m, dst, dstCount, src, srcCount) ==
    LET copied == js_memcpy_s(m, dst, SizeofPtr * dstCount, src, SizeofPtr * srcCount)
    IN  [mem |-> copied,
         calls |-> WriteBarrier(defined, Recycler, WriteBarrierPtr, copied, dst, srcCount)]

\* WriteBarrierPtr::CopyArray(dst, dstCount, src, srcCount), both overloads
WriteBarrierPtr_CopyArray(defined, m, dst, dstCount, src, srcCount) ==
    LET copied == js_memcpy_s(m, dst, SizeofPtr * dstCount, src, SizeofPtr * srcCount)
    IN  [mem |-> copied,
         calls |-> WriteBarrier(defined, Recycler, WriteBarrierPtr, copied, dst, dstCount)]

\* mutant: ClearArray triggers the barrier over what it cleared
ClearArray_Notify(m, dst, count) ==
    [mem |-> memset(m, dst, SizeofPtr * count),
     calls |-> <<HookRange(memset(m, dst, SizeofPtr * count), dst, SizeofPtr * count)>>]

\* WriteBarrierPtr::ClearArray(dst, count)
ClearArray(m, dst, count) ==
    [mem |-> memset(m, dst, SizeofPtr * count), calls |-> <<>>]

RequiredPolicy == AllocatorWriteBarrierPolicy(Recycler, WriteBarrierPtr)

CallMoveArray(dst, src, count) ==
    /\ elemType = WriteBarrierPtr
    /\ Idle
    /\ InRange(dst, count) /\ InRange(src, count)
    /\ LET f(b, m) == MoveArray(b, m, dst, src, count) IN Apply(f)
    /\ last' = [Args("MoveArray") EXCEPT !.dst = dst, !.count = count,
                              !.src = src, !.srcCount = count,
                              !.ptype = WriteBarrierPtr, !.policy = RequiredPolicy]
    /\ ret' = 0

\* overload taking T const* src
CallCopyArrayFromRaw(dst, dstCount, src, srcCount) ==
    /\ elemType = WriteBarrierPtr
    /\ Idle
    /\ CopyArgsOk(dst, dstCount, src, srcCount)
    /\ LET f(b, m) == WriteBarrierPtr_CopyArray(b, m, dst, dstCount, src, srcCount)
       IN Apply(f)
    /\ last' = [Args("WriteBarrierPtr::CopyArray(T const*)") EXCEPT !.dst = dst,
                              !.count = dstCount, !.src = src, !.srcCount = srcCount,
                              !.ptype = WriteBarrierPtr, !.policy = RequiredPolicy]
    /\ ret' = 0

\* overload taking WriteBarrierPtr const* src
CallCopyArrayFromWrapped(dst, dstCount, src, srcCount) ==
    /\ elemType = WriteBarrierPtr
    /\ Idle
    /\ CopyArgsOk(dst, dstCount, src, srcCount)
    /\ LET f(b, m) == WriteBarrierPtr_CopyArray(b, m, dst, dstCount, src, srcCount)
       IN Apply(f)
    /\ last' = [Args("WriteBarrierPtr::CopyArray(WriteBarrierPtr const*)") EXCEPT !.dst = dst,
                              !.count = dstCount, !.src = src, !.srcCount = srcCount,
                              !.ptype = WriteBarrierPtr, !.policy = RequiredPolicy]
    /\ ret' = 0

CallClearArray(dst, count) ==
    /\ elemType = WriteBarrierPtr
    /\ Idle
    /\ InRange(dst, count)
    /\ LET f(b, m) == ClearArray(m, dst, count) IN Apply(f)
    /\ last' = [Args("ClearArray") EXCEPT !.dst = dst, !.count = count]
    /\ ret' = 0

\* the free function WriteBarrier<T, Allocator, PolicyType>(address, count) on
\* the array, with Allocator the array's allocator
CallWriteBarrier(PolicyType, address, count) ==
    /\ Idle
    /\ InRange(address, count)
    /\ LET f(b, m) == [mem |-> m,
                       calls |-> WriteBarrier(b, allocator, PolicyType, m, address, count)]
       IN Apply(f)
    /\ last' = [Args("WriteBarrier") EXCEPT !.dst = address, !.count = count,
                              !.ptype = PolicyType,
                              !.policy = AllocatorWriteBarrierPolicy(allocator, PolicyType)]
    /\ ret' = 0

\* the free function CopyArray<Allocator, T, PolicyType> on the array.  It does
\* not compile for an array of WriteBarrierPtr: js_memcpy_s on WriteBarrierPtr<T>*
\* is CompileAssert(false).
CallCopyArray(PolicyType, dst, dstCount, src, srcCount) ==
    /\ elemType # WriteBarrierPtr
    /\ Idle
    /\ CopyArgsOk(dst, dstCount, src, srcCount)
    /\ LET f(b, m) == CopyArray(b, allocator, PolicyType, m, dst, dstCount, src, srcCount)
       IN Apply(f)
    /\ last' = [Args("CopyArray") EXCEPT !.dst = dst, !.count = dstCount,
                              !.src = src, !.srcCount = srcCount, !.ptype = PolicyType,
                              !.policy = AllocatorWriteBarrierPolicy(allocator, PolicyType)]
    /\ ret' = 0

\* ------------------------------------------------- NoWriteBarrierPtr<T>
\* mutant: NoWriteBarrierPtr notifies like WriteBarrierPtr
NoWriteBarrierPtr_Set_Notify(m, a, value) ==
    [mem |-> [m EXCEPT ![a] = value], calls |-> <<HookPtr([m EXCEPT ![a] = value], a)>>]

\* NoWriteBarrierPtr& operator=(T * value), NoWriteBarrierPtr(T * value)
NoWriteBarrierPtr_Set(m, a, value) ==
    [mem |-> [m EXCEPT ![a] = value], calls |-> <<>>]

\* NoWriteBarrierPtr(T * value)
NoWriteBarrierPtr_Construct(a, v) ==
    /\ elemType = NoWriteBarrierPtr
    /\ Idle
    /\ LET f(b, m) == NoWriteBarrierPtr_Set(m, a, v) IN Apply(f)
    /\ last' = [Args("NoWriteBarrierPtr") EXCEPT !.dst = a, !.val = v,
                    !.old = slots[TRUE][a]]
    /\ ret' = 0

\* NoWriteBarrierPtr& operator=(T * value)
NoWriteBarrierPtr_Assign(a, v) ==
    /\ elemType = NoWriteBarrierPtr
    /\ Idle
    /\ LET f(b, m) == NoWriteBarrierPtr_Set(m, a, v) IN Apply(f)
    /\ last' = [Args("NoWriteBarrierPtr::operator=") EXCEPT !.dst = a, !.val = v,
                    !.old = slots[TRUE][a]]
    /\ ret' = 0

\* NoWriteBarrierPtr: operator->, operator T* const &
NoWriteBarrierPtr_Read(a) ==
    /\ elemType = NoWriteBarrierPtr
    /\ Idle
    /\ ret' = slots[TRUE][a]
    /\ last' = [Args("NoWriteBarrierPtr::operator->") EXCEPT !.dst = a]
    /\ UNCHANGED <<allocator, elemType, slots, hookCalls>>

Next ==
    \/ Idle /\ \E a \in Addr, v \in Val : Construct(a, v)
    \/ (Idle \/ Chained) /\ \E a \in Addr, v \in Val : Assign(a, v)
    \/ (Idle \/ Chained) /\ \E a \in Addr, o \in Addr : AssignFrom(a, o)
    \/ (Idle \/ Chained) /\ \E a \in Addr, v \in Val : CallWriteBarrierSet(a, v)
    \/ (Idle \/ Chained) /\ \E a \in Addr, v \in Val : CallNoWriteBarrierSet(a, v)
    \/ (Idle \/ Chained) /\ \E a \in Addr : OperatorArrow(a)
    \/ (Idle \/ Chained) /\ \E a \in Addr : OperatorConv(a)
    \/ (Idle \/ Chained) /\ \E a \in Addr : AddressOfConst(a)
    \/ (Idle \/ Chained) /\ \E a \in Addr : OperatorAddress(a)
    \/ Idle /\ \E a \in Addr : AddressOf(a)
    \/ \E v \in Val : StoreThroughAddress(v)
    \/ Idle /\ \E d \in Addr, s \in Addr, n \in Counts : CallMoveArray(d, s, n)
    \/ Idle /\ \E d \in Addr, dn \in Counts, s \in Addr, sn \in Counts :
                  CallCopyArrayFromRaw(d, dn, s, sn)
    \/ Idle /\ \E d \in Addr, dn \in Counts, s \in Addr, sn \in Counts :
                  CallCopyArrayFromWrapped(d, dn, s, sn)
    \/ Idle /\ \E d \in Addr, n \in Counts : CallClearArray(d, n)
    \/ Idle /\ \E T \in Types, a \in Addr, n \in Counts : CallWriteBarrier(T, a, n)
    \/ Idle /\ \E T \in {elemType} \cup CopyPolicyTypes,
                  d \in Addr, dn \in Counts, s \in Addr, sn \in Counts :
                  CallCopyArray(T, d, dn, s, sn)
    \/ Idle /\ \E a \in Addr, v \in Val : NoWriteBarrierPtr_Construct(a, v)
    \/ Idle /\ \E a \in Addr, v \in Val : NoWriteBarrierPtr_Assign(a, v)
    \/ Idle /\ \E a \in Addr : NoWriteBarrierPtr_Read(a)
    \/ ClearLog

Spec == Init /\ [][Next]_vars

\* ------------------------------------------------------------------ claims
Required == _write_barrier_policy
Elided == _no_write_barrier_policy

SetOps == {"operator=", "operator=(WriteBarrierPtr const&)", "WriteBarrierSet"}
MemberCopyOps == {"WriteBarrierPtr::CopyArray(T const*)",
                  "WriteBarrierPtr::CopyArray(WriteBarrierPtr const*)"}
CopyOps == MemberCopyOps \cup {"CopyArray"}
BulkOps == CopyOps \cup {"MoveArray"}
PolicyOps == {"WriteBarrier", "CopyArray"}

\* the hook calls the step made, in the build with the barrier
NewCalls == SubSeq(hookCalls'[TRUE], Len(hookCalls[TRUE]) + 1, Len(hookCalls'[TRUE]))

\* the bytes of element a lie inside the range the hook call names
Covers(call, a) ==
    IF call.ranged
    THEN /\ call.address * SizeofPtr <= a * SizeofPtr
         /\ (a + 1) * SizeofPtr <= call.address * SizeofPtr + call.bytes
    ELSE call.address = a

Notified(calls, a) == \E i \in 1 .. Len(calls) : Covers(calls[i], a)

\* the array after n guarded assignments dst[i] = src[i], one after the other,
\* of the values the source held in m0
RECURSIVE Elementwise(_, _, _, _, _, _)
Elementwise(m0, m, d, s, n, i) ==
    IF i >= n THEN m
    ELSE Elementwise(m0, WriteBarrierSet(TRUE, m, d + i, m0[s + i]).mem, d, s, n, i + 1)

\* C1 as stated: outside the explicit specializations (the pair
\* (RecyclerNonLeafAllocator, int), the tag type _write_barrier_policy) and the
\* leaf allocator, the policy is Required iff the allocator is Recycler or
\* RecyclerNonLeafAllocator and the type is a raw pointer or a WriteBarrierPtr.
C1_Stated ==
    (/\ last.op \in PolicyOps
     /\ allocator # RecyclerLeafAllocator
     /\ last.ptype # _write_barrier_policy
     /\ ~ (allocator = RecyclerNonLeafAllocator /\ last.ptype = "int"))
    => (last.policy = Required
          <=> (/\ allocator \in {Recycler, RecyclerNonLeafAllocator}
               /\ last.ptype \in {RawPointer, WriteBarrierPtr}))

\* C1 amended: under RecyclerNonLeafAllocator every type but int resolves to
\* Required and int to Elided; under any other allocator the policy is Required
\* iff the allocator is of Recycler type (Recycler, RecyclerLeafAllocator) and the
\* type is a raw pointer, a WriteBarrierPtr or the _write_barrier_policy tag; and
\* WriteBarrier calls the hook exactly when the policy is Required.
C1_PolicyRule ==
    last.op \in PolicyOps =>
        /\ last.policy \in {Required, Elided}
        /\ last.policy = Required <=>
              IF allocator = RecyclerNonLeafAllocator
              THEN last.ptype # "int"
              ELSE /\ allocator \in {Recycler, RecyclerLeafAllocator}
                   /\ last.ptype \in {RawPointer, WriteBarrierPtr, _write_barrier_policy}
        /\ Len(hookCalls[TRUE]) = (IF last.policy = Required THEN 1 ELSE 0)

C1_Witness ==
    /\ last.op = "WriteBarrier"
    /\ allocator = RecyclerNonLeafAllocator
    /\ last.ptype = "double"
    /\ last.policy = Required
    /\ Len(hookCalls[TRUE]) = 1

\* C2 as stated: under RecyclerLeafAllocator the policy is Elided for every
\* element type, and no operation resolved under it calls the hook.
C2_Stated ==
    (allocator = RecyclerLeafAllocator /\ last.op \in PolicyOps)
    => (last.policy = Elided /\ hookCalls[TRUE] = <<>>)

\* C2 amended: there is no leaf override.  RecyclerLeafAllocator is of Recycler
\* allocator type and follows the allocator-AND-type rule: Required for a raw
\* pointer or a WriteBarrierPtr (and the tag), Elided for the opaque types; a T*
\* field declared through WriteBarrierPtrTraits under it is a WriteBarrierPtr.
C2_LeafFollowsGeneralRule ==
    allocator = RecyclerLeafAllocator =>
        /\ elemType # NoWriteBarrierPtr
        /\ last.op \in PolicyOps =>
              /\ last.policy = Required <=>
                    last.ptype \in {RawPointer, WriteBarrierPtr, _write_barrier_policy}
              /\ (hookCalls[TRUE] # <<>>) <=> last.policy = Required

C2_Witness ==
    /\ allocator = RecyclerLeafAllocator
    /\ last.op = "WriteBarrier"
    /\ last.ptype = RawPointer
    /\ last.policy = Required
    /\ last.count > 0
    /\ Len(hookCalls[TRUE]) = 1

\* C3: with the barrier compiled in, operator= and WriteBarrierSet call the hook
\* exactly once, on the address of the assigned slot, and the hook then sees the
\* new pointer in the slot.
C3_StoreThenNotify ==
    last.op \in SetOps =>
        /\ Len(hookCalls[TRUE]) = 1
        /\ ~ hookCalls[TRUE][1].ranged
        /\ hookCalls[TRUE][1].address = last.dst
        /\ hookCalls[TRUE][1].snapshot[last.dst] = last.val
        /\ hookCalls[TRUE][1].snapshot = slots[TRUE]

C3_Witness ==
    /\ last.op = "operator="
    /\ AllocatorWriteBarrierPolicy(allocator, RawPointer) = Required
    /\ last.old = 1
    /\ last.val = 2
    /\ Len(hookCalls[TRUE]) = 1
    /\ hookCalls[TRUE][1].snapshot[last.dst] = 2

InClearedRange(a) == last'.dst <= a /\ a < last'.dst + last'.count

\* C5: ClearArray(dst, count) zeroes the count slots from dst, leaves every other
\* slot as it was and calls the hook zero times, in both builds.
C5_ClearArray ==
    [][last'.op = "ClearArray" =>
          \A b \in Builds :
              /\ \A a \in Addr :
                    slots'[b][a] = (IF InClearedRange(a) THEN 0 ELSE slots[b][a])
              /\ hookCalls'[b] = <<>>]_vars

C5_Witness ==
    /\ last.op = "ClearArray"
    /\ last.count >= 2
    /\ \A a \in last.dst .. (last.dst + last.count - 1) : slots[TRUE][a] = 0
    /\ \E a \in Addr : slots[TRUE][a] # 0
    /\ hookCalls = NoCalls

\* C6: after CopyArray or MoveArray over N elements the array is what N guarded
\* assignments dst[i] = src[i] of the original source values leave, and the hook
\* was called once if the call's policy is Required and not at all if it is Elided.
C6_BulkEqualsElementwise ==
    [][(last'.op \in BulkOps /\ last'.count = last'.srcCount) =>
          /\ \A b \in Builds :
                slots'[b] = Elementwise(slots[b], slots[b], last'.dst, last'.src,
                                        last'.count, 0)
          /\ Len(hookCalls'[TRUE]) = (IF last'.policy = Required THEN 1 ELSE 0)]_vars

C6_Witness ==
    /\ last.op = "MoveArray"
    /\ last.count >= 2
    /\ last.dst = last.src + 1
    /\ slots[TRUE][last.dst] # slots[TRUE][last.dst + 1]
    /\ last.policy = Required
    /\ Len(hookCalls[TRUE]) = 1

\* the step changed the pointer in slot a of an array of WriteBarrierPtr without
\* a hook call that covers the slot
UnnotifiedChange(a) ==
    /\ elemType = WriteBarrierPtr
    /\ AllocatorWriteBarrierPolicy(allocator, WriteBarrierPtr) = Required
    /\ slots'[TRUE][a] # slots[TRUE][a]
    /\ ~ Notified(NewCalls, a)

\* C7 as stated: apart from construction, a guarded slot changes without
\* notification only by being cleared to null, and no operation hands out a
\* mutable address of the slot.
C7_Stated ==
    [][/\ \A a \in Addr :
            (UnnotifiedChange(a) /\ last'.op # "WriteBarrierPtr") => slots'[TRUE][a] = 0
       /\ last'.op # "AddressOf"]_vars

\* C7 amended: a guarded slot changes without notification only in the
\* constructor, in ClearArray (to null), in NoWriteBarrierSet (to any pointer) and
\* in a store through the address that the non-const AddressOf() returned;
\* operator=, WriteBarrierSet, MoveArray and CopyArray notify after the change,
\* and the const operator& and AddressOf do not let the slot be written.
C7_UnnotifiedOnlyByEscapes ==
    [][\A a \in Addr :
          UnnotifiedChange(a) =>
              /\ last'.op \in {"WriteBarrierPtr", "ClearArray", "NoWriteBarrierSet",
                               "*AddressOf() = ptr"}
              /\ last'.op = "ClearArray" => slots'[TRUE][a] = 0
              /\ last'.op = "*AddressOf() = ptr" => last.op = "AddressOf"]_vars

C7_Witness ==
    /\ elemType = WriteBarrierPtr
    /\ AllocatorWriteBarrierPolicy(allocator, WriteBarrierPtr) = Required
    /\ last.op = "NoWriteBarrierSet"
    /\ last.old = 0
    /\ last.val = 1
    /\ slots[TRUE][last.dst] = 1
    /\ hookCalls[TRUE] = <<>>

\* C8: in the build without RECYCLER_WRITE_BARRIER the hook is never called, and
\* the memory is the same as in the build with it after the same operations.
C8_DisabledBuild ==
    /\ hookCalls[FALSE] = <<>>
    /\ slots[FALSE] = slots[TRUE]

C8_Witness ==
    /\ last.op = "MoveArray"
    /\ last.count >= 2
    /\ last.dst # last.src
    /\ Len(hookCalls[TRUE]) = 1
    /\ hookCalls[FALSE] = <<>>
    /\ slots[FALSE] = slots[TRUE]
    /\ slots[FALSE][last.dst] # 0

\* C9: the constructor stores the pointer and calls no hook; the getters return
\* the stored pointer (or the slot's address) and change neither the memory nor
\* the log; an assignment right after the construction leaves the log with
\* exactly one call and the slot with the assigned pointer.
C9_ConstructAndRead ==
    [][/\ last'.op = "WriteBarrierPtr" =>
             /\ \A b \in Builds : slots'[b][last'.dst] = last'.val
             /\ hookCalls' = NoCalls
       /\ last'.op \in ReadOps \cup ConstAddressOps =>
             /\ slots' = slots
             /\ hookCalls' = hookCalls
             /\ ret' = (IF last'.op \in ReadOps THEN slots[TRUE][last'.dst]
                                                ELSE last'.dst)
       /\ (last'.op = "operator=" /\ last.op = "WriteBarrierPtr") =>
             /\ Len(hookCalls'[TRUE]) = 1
             /\ slots'[TRUE][last'.dst] = last'.val]_vars

C9_Witness ==
    /\ last.op = "operator="
    /\ last.after = "WriteBarrierPtr"
    /\ last.old = 1
    /\ last.val = 2
    /\ slots[TRUE][last.dst] = 2
    /\ Len(hookCalls[TRUE]) = 1

\* C10: a CopyArray or MoveArray whose policy is Required calls the hook once,
\* after the bytes are written, over exactly dstCount (count) elements from dst,
\* and every slot the call changed lies inside that range.
C10_RangeCoversWrites ==
    [][(last'.op \in BulkOps /\ last'.policy = Required) =>
          /\ Len(hookCalls'[TRUE]) = 1
          /\ hookCalls'[TRUE][1].ranged
          /\ hookCalls'[TRUE][1].address = last'.dst
          /\ hookCalls'[TRUE][1].bytes = last'.count * SizeofPtr
          /\ hookCalls'[TRUE][1].snapshot = slots'[TRUE]
          /\ \A a \in Addr :
                slots'[TRUE][a] # slots[TRUE][a] => Covers(hookCalls'[TRUE][1], a)]_vars

C10_Witness ==
    /\ last.op \in MemberCopyOps
    /\ last.srcCount > last.count
    /\ last.count >= 2
    /\ last.policy = Required
    /\ Len(hookCalls[TRUE]) = 1
    /\ hookCalls[TRUE][1].bytes = 2 * SizeofPtr
    /\ slots[TRUE][last.dst] # slots[TRUE][last.dst + 1]
====
